---- MODULE Spec2Model ----
(***************************************************************************)
(* place-coin-core: the UTXO ledger of blockchain.rs (Blockchain::new,     *)
(* new_transaction, mine, get_peer_credits, get_all_unspent_outputs,       *)
(* find_transaction, create_simple_transaction, proof_of_work,             *)
(* validate_proof, is_output_spent) together with Transaction::try_new of  *)
(* transaction.rs and Block of block.rs, then sign_transaction of          *)
(* signature.rs and Address of address.rs.                                 *)
(*                                                                         *)
(* Hashes are content addresses: Sha3_256 wraps the encoded bytes in a     *)
(* digest record, so two values have the same hash exactly when their      *)
(* encodings are equal.  Credits are kept far below the i64 range, so no   *)
(* sum of the model overflows.                                             *)
(***************************************************************************)
EXTENDS Integers, Sequences, FiniteSets, TLC

\* ------------------------------------------------------------------ bounds
MaxBlocks == 2      \* mined blocks explored (the genesis block not counted)
MaxPending == 2     \* pending transactions explored
MaxTime == 1        \* readings of the wall clock
MaxProof == 3       \* candidate proofs 0..MaxProof scanned by proof_of_work
MaxKeys == 3        \* private keys an address is derived from

\* ------------------------------------------------------- program constants
BLOCK_LOCK_TIME == 0
CURRENT_TRANSACTION_VERSION == 0
BASE_REWARD == 1000
GENESIS_PROOF == 100
CURRENT_VERSION == 0
MY_NODE_ID == "MY_NODE_ID"
OTHER_NODE_ID == "OTHER_NODE_ID"

VARIABLES
    miner_public_key_hash,  \* Blockchain.miner_public_key_hash
    blocks,                 \* Blockchain.blocks : Hash -> Block
    transactions,           \* Blockchain.transactions, the pending pool
    last_block_hash,        \* Blockchain.last_block_hash
    now,                    \* the wall clock read by Block::new
    result                  \* what the last call returned to its caller

vars == <<miner_public_key_hash, blocks, transactions, last_block_hash, now, result>>

\* ------------------------------------------------------------ basic values
None == <<>>
Some(x) == <<x>>

Ok(v) == [ok |-> TRUE, value |-> v]
Err(msg) == [ok |-> FALSE, err |-> msg]

Sha3_256(encoded) == [sha3 |-> encoded]

FromOutput(hash, index) == [type |-> "FromOutput", hash |-> hash, index |-> index]
FromReward(height, value) == [type |-> "FromReward", height |-> height, value |-> value]
ToInput(value, public_key_hash) ==
    [type |-> "ToInput", value |-> value, public_key_hash |-> public_key_hash]
ToPixel(value, position, color) ==
    [type |-> "ToPixel", value |-> value, position |-> position, color |-> color]

RECURSIVE SumSeq(_)
SumSeq(s) == IF s = <<>> THEN 0 ELSE Head(s) + SumSeq(Tail(s))

RECURSIVE Concat(_)
Concat(ss) == IF ss = <<>> THEN <<>> ELSE Head(ss) \o Concat(Tail(ss))

MinOf(S) == CHOOSE x \in S : \A y \in S : x <= y

\* ------------------------------------------------------------------- Block
NewBlock(timestamp, block_transactions, proof, previous_hash) ==
    [timestamp |-> timestamp,
     transactions |-> block_transactions,
     proof |-> proof,
     previous_hash |-> previous_hash]

calculate_hash_Constant(block) == Sha3_256(<<>>)

calculate_hash(block) ==
    Sha3_256(<<block.timestamp,
               [i \in 1..Len(block.transactions) |-> block.transactions[i].data],
               block.proof,
               block.previous_hash>>)

get_block_height(block) ==
    IF block.previous_hash = None THEN Ok(0)
    ELSE IF block.transactions = <<>> THEN Err("BlockHeightUnresolvable")
    ELSE LET reward == block.transactions[Len(block.transactions)]
         IN  IF reward.data.inputs # <<>> /\ reward.data.inputs[1].type = "FromReward"
             THEN Ok(reward.data.inputs[1].height)
             ELSE Err("BlockHeightUnresolvable")

\* ------------------------------------------------- Blockchain: read paths
\* Every (block hash, position) of a transaction held in the block map bs.
TxEntries(bs) ==
    UNION {{<<h, i>> : i \in 1..Len(bs[h].transactions)} : h \in DOMAIN bs}

\* Every (block hash, position, output index) of an output in the block map.
OutputEntries(bs) ==
    UNION {{<<e[1], e[2], j>> : j \in 0..(Len(bs[e[1]].transactions[e[2]].data.outputs) - 1)} :
           e \in TxEntries(bs)}

EntryTx(bs, e) == bs[e[1]].transactions[e[2]]
EntryOutput(bs, e) == EntryTx(bs, e).data.outputs[e[3] + 1]

is_output_spent(bs, transaction_hash, output_index) ==
    \E e \in TxEntries(bs) :
        \E k \in 1..Len(EntryTx(bs, e).data.inputs) :
            LET input == EntryTx(bs, e).data.inputs[k]
            IN  /\ input.type = "FromOutput"
                /\ input.index = output_index
                /\ input.hash = transaction_hash

find_transaction(bs, transaction_hash) ==
    LET found == {e \in TxEntries(bs) : EntryTx(bs, e).hash = transaction_hash}
    IN  IF found = {} THEN None ELSE Some(EntryTx(bs, CHOOSE e \in found : TRUE))

\* The entries get_all_unspent_outputs yields, as a set of positions.
UnspentEntries(bs) ==
    {e \in OutputEntries(bs) :
        /\ EntryOutput(bs, e).type = "ToInput"
        /\ ~ is_output_spent(bs, EntryTx(bs, e).hash, e[3])}

RECURSIVE SumEntries(_, _)
SumEntries(bs, S) ==
    IF S = {} THEN 0
    ELSE LET e == CHOOSE x \in S : TRUE
         IN  EntryOutput(bs, e).value + SumEntries(bs, S \ {e})

get_peer_credits(bs, peer_address) ==
    SumEntries(bs, {e \in UnspentEntries(bs) :
                        EntryOutput(bs, e).public_key_hash = peer_address})

get_last_block(bs, last_hash) == bs[last_hash]

\* ------------------------------------------------- Transaction::try_new
InputValue_PixelSpendable(bs, input) ==
    IF input.type = "FromOutput"
    THEN LET input_transaction == find_transaction(bs, input.hash)
         IN  IF input_transaction = None
             THEN Err("Fail to find input transaction.")
             ELSE LET outputs == input_transaction[1].data.outputs
                  IN  IF input.index >= Len(outputs)
                      THEN Err("Fail to find output in input transaction.")
                      ELSE Ok(outputs[input.index + 1].value)
    ELSE Ok(input.value)

InputValue(bs, input) ==
    IF input.type = "FromOutput"
    THEN LET input_transaction == find_transaction(bs, input.hash)
         IN  IF input_transaction = None
             THEN Err("Fail to find input transaction.")
             ELSE LET outputs == input_transaction[1].data.outputs
                  IN  IF input.index >= Len(outputs)
                      THEN Err("Fail to find output in input transaction.")
                      ELSE IF outputs[input.index + 1].type = "ToInput"
                           THEN Ok(outputs[input.index + 1].value)
                           ELSE Err("Mismatch output type in the input transaction.")
    ELSE Ok(input.value)

NegativeBalance_Inverted(balance) == balance > 0

NegativeBalance_OrZero(balance) == balance <= 0

NegativeBalance(balance) == balance < 0

try_new(bs, inputs, outputs, lock_time) ==
    LET values == [i \in 1..Len(inputs) |-> InputValue(bs, inputs[i])]
        failed == {i \in 1..Len(inputs) : ~ values[i].ok}
    IN  IF failed # {}
        THEN Err(values[MinOf(failed)].err)
        ELSE LET input_value == SumSeq([i \in 1..Len(inputs) |-> values[i].value])
                 output_value == SumSeq([j \in 1..Len(outputs) |-> outputs[j].value])
                 balance == input_value - output_value
                 data == [version |-> CURRENT_TRANSACTION_VERSION,
                          inputs |-> inputs,
                          outputs |-> outputs,
                          lock_time |-> lock_time]
                 encoded == <<data.version, data.inputs, data.outputs, data.lock_time>>
             IN  IF NegativeBalance(balance)
                 THEN Err("A transaction can't have a negative balance.")
                 ELSE Ok([data |-> data, balance |-> balance, hash |-> Sha3_256(encoded)])

\* --------------------------------------------------------- proof of work
\* The leading byte of SHA3-256(last_proof ++ proof).  The digest is a fixed
\* function of the two proofs; over the bounded candidate range it is
\* represented by a residue, zero standing for a zero leading byte.
Sha3FirstByte(last_proof, proof) == (last_proof + proof) % 3

validate_proof(last_proof, proof) == Sha3FirstByte(last_proof, proof) = 0

proof_of_work_Unchecked(bs, last_hash) == 0..MaxProof

\* The candidates find_any may report; proof_of_work unwraps one of them.
proof_of_work(bs, last_hash) ==
    {proof \in 0..MaxProof : validate_proof(get_last_block(bs, last_hash).proof, proof)}

\* ------------------------------------------------------------------- Init
GenesisBlock_ZeroProof == NewBlock(0, <<>>, 0, None)

GenesisBlock == NewBlock(0, <<>>, GENESIS_PROOF, None)

Init ==
    LET genesis_block == GenesisBlock
        genesis_block_hash == calculate_hash(genesis_block)
    IN  /\ miner_public_key_hash = MY_NODE_ID
        /\ blocks = (genesis_block_hash :> genesis_block)
        /\ transactions = <<>>
        /\ last_block_hash = genesis_block_hash
        /\ now = 0
        /\ result = [op |-> "new", status |-> "Ok"]

\* The wall clock advances between calls.
Tick ==
    /\ now < MaxTime
    /\ now' = now + 1
    /\ UNCHANGED <<miner_public_key_hash, blocks, transactions, last_block_hash, result>>

\* ------------------------------------------------------- Blockchain::mine
BlockReward_BaseOnly(drained) == BASE_REWARD

BlockReward(drained) ==
    BASE_REWARD + SumSeq([i \in 1..Len(drained) |-> drained[i].balance])

RewardHeight_Same(last_height) == last_height

RewardHeight_Skip(last_height) == last_height + 2

RewardHeight(last_height) == last_height + 1

SealedTransactions_RewardFirst(drained, reward_transaction) ==
    <<reward_transaction>> \o drained

SealedTransactions(drained, reward_transaction) == Append(drained, reward_transaction)

NextLastBlockHash_Stale(last_hash, new_block_hash) == last_hash

NextLastBlockHash(last_hash, new_block_hash) == new_block_hash

\* A call that leaves the block map alone after the pool was swapped out.
MineFailed(bs, last_hash, status) ==
    [status |-> status, blocks |-> bs, transactions |-> <<>>, last_block_hash |-> last_hash]

\* Every way one call of mine can end in the ledger (bs, pool, last_hash):
\* the status it returns and the fields it leaves behind.
mine(miner, bs, pool, last_hash, timestamp) ==
    LET drained == pool
        block_reward == BlockReward(drained)
        height == get_block_height(get_last_block(bs, last_hash))
    IN  IF ~ height.ok
        THEN {MineFailed(bs, last_hash, height.err)}
        ELSE LET inputs == <<FromReward(RewardHeight(height.value), block_reward)>>
                 outputs == <<ToInput(block_reward, miner)>>
                 reward_transaction == try_new(bs, inputs, outputs, BLOCK_LOCK_TIME)
             IN  IF ~ reward_transaction.ok
                 THEN {MineFailed(bs, last_hash, reward_transaction.err)}
                 ELSE IF proof_of_work(bs, last_hash) = {}
                 THEN {MineFailed(bs, last_hash, "panic")}
                 ELSE {LET new_block ==
                               NewBlock(timestamp,
                                        SealedTransactions(drained, reward_transaction.value),
                                        proof, Some(last_hash))
                           new_block_hash == calculate_hash(new_block)
                       IN  [status |-> "Ok",
                            blocks |-> [h \in (DOMAIN bs) \cup {new_block_hash} |->
                                           IF h = new_block_hash THEN new_block ELSE bs[h]],
                            transactions |-> <<>>,
                            last_block_hash |-> NextLastBlockHash(last_hash, new_block_hash)] :
                       proof \in proof_of_work(bs, last_hash)}

Mine ==
    /\ Cardinality(DOMAIN blocks) - 1 < MaxBlocks
    /\ \E outcome \in mine(miner_public_key_hash, blocks, transactions, last_block_hash, now) :
         /\ blocks' = outcome.blocks
         /\ transactions' = outcome.transactions
         /\ last_block_hash' = outcome.last_block_hash
         /\ result' = [op |-> "mine", status |-> outcome.status]
         /\ UNCHANGED <<miner_public_key_hash, now>>

\* ------------------------------------------- Blockchain::new_transaction
new_transaction_Prepend(pool, transaction) == <<transaction>> \o pool

new_transaction_Replace(pool, transaction) == <<transaction>>

new_transaction(pool, transaction) == Append(pool, transaction)

\* A caller constructs a transaction against the ledger and submits it.
InputChoices ==
    {FromOutput(EntryTx(blocks, e).hash, index) :
        e \in TxEntries(blocks), index \in 0..1}
    \cup {FromOutput(Sha3_256(<<"unknown">>), 0)}
    \cup {FromReward(1, 100)}

InputLists == {<<>>} \cup {<<input>> : input \in InputChoices}

OutputLists ==
    {<<ToInput(99, OTHER_NODE_ID)>>,
     <<ToPixel(1, <<0, 0>>, <<255, 0, 0>>)>>,
     <<ToInput(100, OTHER_NODE_ID), ToInput(-1, MY_NODE_ID)>>,
     <<ToInput(100, OTHER_NODE_ID), ToInput(-2, OTHER_NODE_ID)>>}

NewTransaction ==
    /\ Cardinality(DOMAIN blocks) - 1 < MaxBlocks
    /\ Len(transactions) < MaxPending
    /\ \E inputs \in InputLists, outputs \in OutputLists :
         \E transaction \in {try_new(blocks, inputs, outputs, 0)} :
             IF transaction.ok
             THEN /\ transactions' = new_transaction(transactions, transaction.value)
                  /\ result' = [op |-> "new_transaction", status |-> "Ok"]
                  /\ UNCHANGED <<miner_public_key_hash, blocks, last_block_hash, now>>
             ELSE /\ result' = [op |-> "try_new", status |-> transaction.err]
                  /\ UNCHANGED <<miner_public_key_hash, blocks, transactions,
                                 last_block_hash, now>>

\* ------------------------------- Blockchain::create_simple_transaction
\* The orders in which the block map can be iterated.
RECURSIVE BlockOrders(_)
BlockOrders(hashes) ==
    IF hashes = {} THEN {<<>>}
    ELSE UNION {{<<h>> \o rest : rest \in BlockOrders(hashes \ {h})} : h \in hashes}

\* get_all_unspent_outputs in one iteration order: blocks as ordered, the
\* transactions of a block and the outputs of a transaction in sequence.
BlockUnspent(bs, h) ==
    Concat([i \in 1..Len(bs[h].transactions) |->
        LET transaction == bs[h].transactions[i]
            unspent(j) == /\ transaction.data.outputs[j].type = "ToInput"
                          /\ ~ is_output_spent(bs, transaction.hash, j - 1)
        IN  Concat([j \in 1..Len(transaction.data.outputs) |->
                IF unspent(j)
                THEN <<[transaction |-> transaction,
                        output |-> transaction.data.outputs[j],
                        output_index |-> j - 1]>>
                ELSE <<>>])])

get_all_unspent_outputs(bs, order) ==
    Concat([k \in 1..Len(order) |-> BlockUnspent(bs, order[k])])

IsOwnedBy(entry, sender) == entry.output.public_key_hash = sender

\* The while loop of create_simple_transaction: take outputs in order until
\* the running total reaches the target or the outputs run out.
RECURSIVE CollectOutputs(_, _, _, _)
CollectOutputs(unspent_outputs, total_target_value, total, outputs) ==
    IF total < total_target_value /\ unspent_outputs # <<>>
    THEN CollectOutputs(Tail(unspent_outputs), total_target_value,
                        total + Head(unspent_outputs).output.value,
                        Append(outputs, Head(unspent_outputs)))
    ELSE [outputs |-> outputs, total |-> total]

ChangeValue_TaxKept(total, value, tax) == total - value

ChangeValue(total, value, tax) == total - value - tax

PayValues == {99, 1000}
PayTaxes == {0, 5}
PeerHashes == {MY_NODE_ID, OTHER_NODE_ID}

\* What create_simple_transaction returns for one iteration order of the
\* block map: the transaction it submits, or the error it bails with.
simple_transaction(bs, all_unspent, sender, recipient, value, tax) ==
    LET unspent_outputs == SelectSeq(all_unspent, LAMBDA entry : IsOwnedBy(entry, sender))
        collected == CollectOutputs(unspent_outputs, value + tax, 0, <<>>)
    IN  IF collected.total < value + tax
        THEN Err("Not enough credits to make the transaction.")
        ELSE LET inputs == [k \in 1..Len(collected.outputs) |->
                               FromOutput(collected.outputs[k].transaction.hash,
                                          collected.outputs[k].output_index)]
                 value_output == ToInput(value, recipient)
                 change_output == ToInput(ChangeValue(collected.total, value, tax), sender)
             IN  try_new(bs, inputs, <<value_output, change_output>>, 0)

CreateSimpleTransaction ==
    /\ Cardinality(DOMAIN blocks) - 1 < MaxBlocks
    /\ Len(transactions) < MaxPending
    /\ \E all_unspent \in {get_all_unspent_outputs(blocks, order) :
                              order \in BlockOrders(DOMAIN blocks)} :
       \E sender \in PeerHashes, recipient \in PeerHashes,
          value \in PayValues, tax \in PayTaxes :
         \E transaction \in {simple_transaction(blocks, all_unspent, sender,
                                                recipient, value, tax)} :
             IF transaction.ok
             THEN /\ transactions' = new_transaction(transactions, transaction.value)
                  /\ result' = [op |-> "create_simple_transaction", status |-> "Ok"]
                  /\ UNCHANGED <<miner_public_key_hash, blocks, last_block_hash, now>>
             ELSE /\ result' = [op |-> "create_simple_transaction",
                                status |-> transaction.err]
                  /\ UNCHANGED <<miner_public_key_hash, blocks, transactions,
                                 last_block_hash, now>>

Next == Mine \/ NewTransaction \/ CreateSimpleTransaction \/ Tick

Spec == Init /\ [][Next]_vars

\* The ledger driven by create_simple_transaction and mine alone.
NextPay == Mine \/ CreateSimpleTransaction \/ Tick

SpecPay == Init /\ [][NextPay]_vars

\* ------------------------------------------------- signed FromOutput inputs
\* The key pairs of the two parties; a public key hashes to its node id.
PrivateKeys == {"MY_PRIVATE_KEY", "OTHER_PRIVATE_KEY"}

PublicKeyOf(private_key) == [public_key_of |-> private_key]

PublicKeys == {PublicKeyOf(private_key) : private_key \in PrivateKeys}

PublicKeyHashOf(public_key) ==
    IF public_key = PublicKeyOf("MY_PRIVATE_KEY") THEN MY_NODE_ID ELSE OTHER_NODE_ID

\* Signature::new: an ECDSA signature binds the signing key to the message.
NewSignature(private_key, hash) == [signer |-> private_key, message |-> hash]

SignedMessage(transaction_hash, output_index, public_key) ==
    Sha3_256(<<transaction_hash, output_index, public_key>>)

sign_transaction(transaction_hash, output_index, public_key, private_key) ==
    NewSignature(private_key, SignedMessage(transaction_hash, output_index, public_key))

\* The counterpart of sign_transaction: the signature was made over this
\* message with the private key of this public key.
verify(public_key, message_hash, signature) ==
    /\ signature.message = message_hash
    /\ PublicKeyOf(signature.signer) = public_key

FromOutputSigned(transaction_hash, output_index, public_key, signature) ==
    [type |-> "FromOutput", hash |-> transaction_hash, index |-> output_index,
     public_key |-> public_key, signature |-> signature]

\* A party signs a reference to an output of the chain with its own private
\* key, names a public key, pays itself and submits the transaction.
NewSignedTransaction ==
    /\ Cardinality(DOMAIN blocks) - 1 < MaxBlocks
    /\ Len(transactions) < MaxPending
    /\ \E e \in TxEntries(blocks), index \in 0..1,
          private_key \in PrivateKeys, public_key \in PublicKeys :
         LET transaction_hash == EntryTx(blocks, e).hash
             signature == sign_transaction(transaction_hash, index, public_key, private_key)
             inputs == <<FromOutputSigned(transaction_hash, index, public_key, signature)>>
             outputs == <<ToInput(99, PublicKeyHashOf(PublicKeyOf(private_key)))>>
         IN  \E transaction \in {try_new(blocks, inputs, outputs, 0)} :
                 IF transaction.ok
                 THEN /\ transactions' = new_transaction(transactions, transaction.value)
                      /\ result' = [op |-> "new_transaction", status |-> "Ok"]
                      /\ UNCHANGED <<miner_public_key_hash, blocks, last_block_hash, now>>
                 ELSE /\ result' = [op |-> "try_new", status |-> transaction.err]
                      /\ UNCHANGED <<miner_public_key_hash, blocks, transactions,
                                     last_block_hash, now>>

\* The ledger driven by signed transactions and mine.
NextSigned == Mine \/ NewSignedTransaction \/ Tick

SpecSigned == Init /\ [][NextSigned]_vars

\* ----------------------------------------------------------------- Address
\* Byte strings are sequences over 0..255 and base58 strings are sequences of
\* positions in the base58 alphabet, whose first character '1' is position 0;
\* Base58Invalid stands for a character outside the alphabet.
PrivateKeyScalars == 1..MaxKeys

\* The serialized public key of a private key: 33 bytes fixed by the key.
PublicKeyBytes(private_key) ==
    [i \in 1..33 |-> (private_key * (2 * i + 1) + 5 * i) % 256]

\* A 32-byte digest of a byte string: a fixed function of every byte and of
\* the length.
RECURSIVE WeightedSum(_, _, _, _)
WeightedSum(bytes, low, high, i) ==
    IF low > high THEN 0
    ELSE IF low = high THEN (low + i) * bytes[low]
    ELSE LET middle == (low + high) \div 2
         IN  WeightedSum(bytes, low, middle, i) + WeightedSum(bytes, middle + 1, high, i)

Sha3_256Bytes(bytes) ==
    [i \in 1..32 |-> (WeightedSum(bytes, 1, Len(bytes), i) + 31 * i + Len(bytes)) % 256]

RECURSIVE StripZeros(_)
StripZeros(digits) ==
    IF digits # <<>> /\ Head(digits) = 0 THEN StripZeros(Tail(digits)) ELSE digits

LeadingZeros(digits) == Len(digits) - Len(StripZeros(digits))

Zeros(n) == [i \in 1..n |-> 0]

\* Base conversion takes the base58 digits three at a time.
Pow58(n) == IF n = 0 THEN 1 ELSE IF n = 1 THEN 58 ELSE IF n = 2 THEN 3364 ELSE 195112

\* Long division of a big-endian byte string by divisor, the upper half
\* first, its remainder carried into the lower half.
RECURSIVE DivMod(_, _, _)
DivMod(bytes, divisor, remainder) ==
    IF remainder >= 0 /\ bytes = <<>> THEN [quotient |-> <<>>, remainder |-> remainder]
    ELSE IF Len(bytes) = 1
    THEN [quotient |-> <<(remainder * 256 + bytes[1]) \div divisor>>,
          remainder |-> (remainder * 256 + bytes[1]) % divisor]
    ELSE LET half == Len(bytes) \div 2
             high == DivMod(SubSeq(bytes, 1, half), divisor, remainder)
             low == DivMod(SubSeq(bytes, half + 1, Len(bytes)), divisor, high.remainder)
         IN  [quotient |-> high.quotient \o low.quotient, remainder |-> low.remainder]

\* The base58 digits of the number a byte string spells, most significant
\* first, in groups of three.
RECURSIVE ToBase58(_)
ToBase58(bytes) ==
    IF StripZeros(bytes) = <<>> THEN <<>>
    ELSE LET step == DivMod(StripZeros(bytes), Pow58(3), 0)
             group == step.remainder
         IN  ToBase58(step.quotient)
                 \o <<group \div Pow58(2), (group \div 58) % 58, group % 58>>

Base58Encode_DropLeadingZeros(bytes) == StripZeros(ToBase58(bytes))

\* bs58::encode: one '1' for every leading zero byte, then the digits.
Base58Encode(bytes) == Zeros(LeadingZeros(bytes)) \o StripZeros(ToBase58(bytes))

\* bytes * factor + carry on a big-endian byte string, the lower half first,
\* its carry taken into the upper half.
RECURSIVE MulAdd(_, _, _)
MulAdd(bytes, factor, carry) ==
    IF carry >= 0 /\ bytes = <<>> THEN [bytes |-> <<>>, carry |-> carry]
    ELSE IF Len(bytes) = 1
    THEN [bytes |-> <<(bytes[1] * factor + carry) % 256>>,
          carry |-> (bytes[1] * factor + carry) \div 256]
    ELSE LET half == Len(bytes) \div 2
             low == MulAdd(SubSeq(bytes, half + 1, Len(bytes)), factor, carry)
             high == MulAdd(SubSeq(bytes, 1, half), factor, low.carry)
         IN  [bytes |-> high.bytes \o low.bytes, carry |-> high.carry]

\* The bytes of a carry, most significant first.
RECURSIVE CarryBytes(_)
CarryBytes(carry) ==
    IF carry = 0 THEN <<>> ELSE Append(CarryBytes(carry \div 256), carry % 256)

\* The number a group of up to three digits spells.
GroupValue(digits) ==
    IF Len(digits) = 1 THEN digits[1]
    ELSE IF Len(digits) = 2 THEN digits[1] * 58 + digits[2]
    ELSE digits[1] * Pow58(2) + digits[2] * 58 + digits[3]

\* The bytes of the number spelt by the digits from position i on, bytes
\* holding the number spelt by the digits before i.
RECURSIVE FromBase58(_, _, _)
FromBase58(digits, i, bytes) ==
    IF Len(bytes) >= 0 /\ i > Len(digits) THEN bytes
    ELSE LET size == IF i = 1 THEN ((Len(digits) - 1) % 3) + 1 ELSE 3
             step == MulAdd(bytes, Pow58(size), GroupValue(SubSeq(digits, i, i + size - 1)))
         IN  FromBase58(digits, i + size,
                        CHOOSE next \in {CarryBytes(step.carry) \o step.bytes} : TRUE)

Base58Invalid == 58

\* bs58::decode: an error for a character outside the alphabet, else one zero
\* byte for every leading '1' followed by the bytes of the number.
Base58Decode(base58) ==
    IF \E i \in 1..Len(base58) : base58[i] \notin 0..57
    THEN Err("InvalidCharacter")
    ELSE Ok(Zeros(LeadingZeros(base58)) \o FromBase58(StripZeros(base58), 1, <<>>))

calculate_checksum(version, public_key_hash) ==
    SubSeq(Sha3_256Bytes(Sha3_256Bytes(<<version>> \o public_key_hash)), 1, 4)

from_private_key(private_key) ==
    LET public_key_hash == Sha3_256Bytes(PublicKeyBytes(private_key))
        checksum == calculate_checksum(CURRENT_VERSION, public_key_hash)
        value == <<CURRENT_VERSION>> \o public_key_hash \o checksum
    IN  Base58Encode(value)

from_string(base58) == base58

validate(base58) ==
    LET decoded == Base58Decode(base58)
    IN  IF ~ decoded.ok THEN FALSE
        ELSE LET address == decoded.value
             IN  IF Len(address) # 1 + 32 + 4 THEN FALSE
                 ELSE IF address[1] # CURRENT_VERSION THEN FALSE
                 ELSE IF calculate_checksum(address[1], SubSeq(address, 2, 33))
                             # SubSeq(address, 34, 37)
                 THEN FALSE
                 ELSE TRUE

\* Strings a caller can hand to from_string: a derived address with one
\* character replaced, with its last character cut off, or with a '1' put in
\* front.
TamperPositions == {1, 2, 20, 40}

TamperedStrings(base58) ==
    {[base58 EXCEPT ![i] = (@ + 1) % 58] : i \in TamperPositions \cap DOMAIN base58}
    \cup {[base58 EXCEPT ![i] = Base58Invalid] : i \in TamperPositions \cap DOMAIN base58}
    \cup {SubSeq(base58, 1, Len(base58) - 1), <<0>> \o base58}

FromPrivateKey ==
    /\ \E private_key \in PrivateKeyScalars :
           result' = [op |-> "from_private_key", address |-> from_private_key(private_key)]
    /\ UNCHANGED <<miner_public_key_hash, blocks, transactions, last_block_hash, now>>

FromString ==
    /\ \E private_key \in PrivateKeyScalars :
           \E base58 \in TamperedStrings(from_private_key(private_key)) :
               result' = [op |-> "from_string", address |-> from_string(base58)]
    /\ UNCHANGED <<miner_public_key_hash, blocks, transactions, last_block_hash, now>>

Validate ==
    /\ result.op \in {"from_private_key", "from_string"}
    /\ result' = [op |-> "validate", address |-> result.address,
                  valid |-> validate(result.address)]
    /\ UNCHANGED <<miner_public_key_hash, blocks, transactions, last_block_hash, now>>

NextAddress == FromPrivateKey \/ FromString \/ Validate \/ Tick

SpecAddress == Init /\ [][NextAddress]_vars

\* ================================================================= claims
NumMined == Cardinality(DOMAIN blocks) - 1

\* The (transaction hash, output index) pairs a transaction consumes.
SpentRefs(transaction) ==
    {<<transaction.data.inputs[k].hash, transaction.data.inputs[k].index>> :
        k \in {k \in 1..Len(transaction.data.inputs) :
                  transaction.data.inputs[k].type = "FromOutput"}}

\* ref names an unspent ToInput output of the committed chain.
IsUnspentRef(bs, ref) ==
    \E e \in UnspentEntries(bs) : EntryTx(bs, e).hash = ref[1] /\ e[3] = ref[2]

\* C1: when a transaction spending an unspent output o is submitted to
\* new_transaction while a different pending transaction already spends o,
\* it is not admitted: the call does not return Ok.
C1_DoubleSpendRejected ==
    (result.op = "new_transaction" /\ result.status = "Ok") =>
        LET n == Len(transactions)
        IN  \A i \in 1..(n - 1) :
                transactions[i] # transactions[n] =>
                    \A ref \in SpentRefs(transactions[i]) \cap SpentRefs(transactions[n]) :
                        ~ IsUnspentRef(blocks, ref)

\* Input slots of the committed chain and of the pending pool.
ChainInputSlots ==
    UNION {{<<e[1], e[2], k>> : k \in 1..Len(EntryTx(blocks, e).data.inputs)} :
           e \in TxEntries(blocks)}

PoolInputSlots ==
    UNION {{<<i, k>> : k \in 1..Len(transactions[i].data.inputs)} :
           i \in 1..Len(transactions)}

ChainInput(slot) == blocks[slot[1]].transactions[slot[2]].data.inputs[slot[3]]
PoolInput(slot) == transactions[slot[1]].data.inputs[slot[2]]

SameOutput(a, b) ==
    /\ a.type = "FromOutput"
    /\ b.type = "FromOutput"
    /\ a.hash = b.hash
    /\ a.index = b.index

\* C2: over the committed blocks together with the pending pool, no two
\* FromOutput inputs reference the same (transaction hash, output index).
C2_NoOutputConsumedTwice ==
    /\ \A a, b \in ChainInputSlots :
           a # b => ~ SameOutput(ChainInput(a), ChainInput(b))
    /\ \A a, b \in PoolInputSlots :
           a # b => ~ SameOutput(PoolInput(a), PoolInput(b))
    /\ \A a \in ChainInputSlots, b \in PoolInputSlots :
           ~ SameOutput(ChainInput(a), PoolInput(b))

\* Every transaction held by the ledger: sealed in a block or pending.
LedgerTransactions ==
    {EntryTx(blocks, e) : e \in TxEntries(blocks)}
    \cup {transactions[i] : i \in 1..Len(transactions)}

\* Lists of up to two inputs a caller can hand to try_new.
InputPairs ==
    InputLists \cup {<<a, FromReward(1, 100)>> : a \in InputChoices}

InputsResolve(bs, inputs) == \A i \in 1..Len(inputs) : InputValue(bs, inputs[i]).ok

InputSum(bs, inputs) ==
    SumSeq([i \in 1..Len(inputs) |-> InputValue(bs, inputs[i]).value])

OutputSum(outputs) == SumSeq([j \in 1..Len(outputs) |-> outputs[j].value])

PrevBlocks == [h \in (DOMAIN blocks) \ {last_block_hash} |-> blocks[h]]

\* The transactions create_simple_transaction can submit in the block map bs.
SimpleTransactions(bs, sender, recipient, value, tax) ==
    {simple_transaction(bs, get_all_unspent_outputs(bs, order),
                        sender, recipient, value, tax) :
        order \in BlockOrders(DOMAIN bs)}

\* The last block sealed exactly one payment of value and tax from the miner
\* to recipient, submitted while the pool was empty.
SealedPayment(recipient, value, tax) ==
    /\ NumMined >= 1
    /\ Len(get_last_block(blocks, last_block_hash).transactions) = 2
    /\ Ok(get_last_block(blocks, last_block_hash).transactions[1]) \in
           SimpleTransactions(PrevBlocks, miner_public_key_hash, recipient, value, tax)

\* The end-to-end scenario: mine, one payment of 99 with tax 5, mine.
EndToEndScenario ==
    /\ NumMined = 2
    /\ SealedPayment(OTHER_NODE_ID, 99, 5)
    /\ \A h \in DOMAIN PrevBlocks : Len(PrevBlocks[h].transactions) <= 1

NewBlockReward ==
    LET sealed == get_last_block(blocks, last_block_hash).transactions
    IN  sealed[Len(sealed)].data.outputs[1].value

\* C4: after the first mine on a fresh ledger the miner holds the base
\* reward; after mine, a payment of 99 with tax 5 to another address and a
\* second mine, the recipient holds 99 and the miner holds
\* base_reward - 99 - 5 + new_block_reward; and whenever a block seals one
\* payment from the miner to another address, the recipient's balance has
\* risen by exactly the value paid.
C4_EndToEndPayment ==
    /\ (NumMined = 1 /\ Len(get_last_block(blocks, last_block_hash).transactions) = 1)
           => get_peer_credits(blocks, miner_public_key_hash) = BASE_REWARD
    /\ EndToEndScenario =>
           /\ get_peer_credits(blocks, OTHER_NODE_ID) = 99
           /\ get_peer_credits(blocks, miner_public_key_hash) =
                  BASE_REWARD - 99 - 5 + NewBlockReward
    /\ \A recipient \in PeerHashes \ {miner_public_key_hash},
          value \in PayValues, tax \in PayTaxes :
           SealedPayment(recipient, value, tax) =>
               get_peer_credits(blocks, recipient) =
                   get_peer_credits(PrevBlocks, recipient) + value

\* The second mine of the end-to-end scenario has returned.
C4_Witness ==
    /\ EndToEndScenario
    /\ result = [op |-> "mine", status |-> "Ok"]
    /\ NewBlockReward = BASE_REWARD + 5

RECURSIVE SumFn(_, _)
SumFn(f, S) ==
    IF S = {} THEN 0
    ELSE LET e == CHOOSE x \in S : TRUE
         IN  f[e] + SumFn(f, S \ {e})

\* The total the test sums over get_all_unspent_outputs.
TotalUnspent(bs) == SumEntries(bs, UnspentEntries(bs))

\* The position of the reward transaction of every mined block.
RewardEntries ==
    {<<h, Len(blocks[h].transactions)>> :
        h \in {h \in DOMAIN blocks : blocks[h].previous_hash # None}}

SumRewards ==
    SumFn([e \in RewardEntries |-> EntryTx(blocks, e).data.outputs[1].value], RewardEntries)

\* The surplus (input - output) of every sealed transaction but the rewards.
SumSealedBalances ==
    SumFn([e \in TxEntries(blocks) \ RewardEntries |-> EntryTx(blocks, e).balance],
          TxEntries(blocks) \ RewardEntries)

NoPixelPurchases ==
    \A e \in OutputEntries(blocks) : EntryOutput(blocks, e).type # "ToPixel"

\* No sealed transaction but the block rewards carries a FromReward input.
OnlyMinedRewards ==
    \A e \in TxEntries(blocks) \ RewardEntries :
        \A k \in 1..Len(EntryTx(blocks, e).data.inputs) :
            EntryTx(blocks, e).data.inputs[k].type # "FromReward"

C6_FixedIssuance ==
    TotalUnspent(blocks) = BASE_REWARD * NumMined

IsRewardTransaction(transaction) ==
    /\ Len(transaction.data.inputs) = 1
    /\ transaction.data.inputs[1].type = "FromReward"

C8_MineSealsPool ==
    [][blocks' # blocks =>
          /\ (DOMAIN blocks') \ (DOMAIN blocks) = {last_block_hash'}
          /\ LET sealed == blocks'[last_block_hash'].transactions
             IN  /\ Len(sealed) = Len(transactions) + 1
                 /\ SubSeq(sealed, 1, Len(transactions)) = transactions
                 /\ IsRewardTransaction(sealed[Len(sealed)])
          /\ transactions' = <<>>]_vars

\* mine has sealed a pool of two transactions.
C8_Witness ==
    /\ result = [op |-> "mine", status |-> "Ok"]
    /\ Len(get_last_block(blocks, last_block_hash).transactions) = 3
    /\ transactions = <<>>

\* C9: the last transaction of every mined block has the single input
\* FromReward{height of the previous block + 1, r} and the single output
\* ToInput{r, miner_public_key_hash}, with r = 1000 + the balances of the
\* other transactions of the block, and its own balance is 0.
C9_RewardShape ==
    \A h \in DOMAIN blocks :
        blocks[h].previous_hash # None =>
            LET sealed == blocks[h].transactions
                reward_transaction == sealed[Len(sealed)]
                previous == blocks[blocks[h].previous_hash[1]]
                r == BASE_REWARD + SumSeq([i \in 1..(Len(sealed) - 1) |-> sealed[i].balance])
            IN  /\ sealed # <<>>
                /\ get_block_height(previous).ok
                /\ reward_transaction.data.inputs =
                       <<FromReward(get_block_height(previous).value + 1, r)>>
                /\ reward_transaction.data.outputs = <<ToInput(r, miner_public_key_hash)>>
                /\ reward_transaction.balance = 0

\* The second mined block collected a surplus from its pool.
C9_Witness ==
    /\ NumMined = 2
    /\ result = [op |-> "mine", status |-> "Ok"]
    /\ Len(get_last_block(blocks, last_block_hash).transactions) >= 2
    /\ NewBlockReward > BASE_REWARD

\* The blocks met by following previous_hash from h, at most fuel of them.
RECURSIVE ChainFrom(_, _)
ChainFrom(h, fuel) ==
    IF fuel = 0 \/ h \notin DOMAIN blocks THEN <<>>
    ELSE IF blocks[h].previous_hash = None THEN <<h>>
    ELSE <<h>> \o ChainFrom(blocks[h].previous_hash[1], fuel - 1)

\* C10: blocks[last_block_hash] exists, no block names last_block_hash as
\* its previous_hash, and following previous_hash from last_block_hash
\* visits every block of the map exactly once, ending at the genesis block,
\* the one whose previous_hash is None.
C10_SingleLinearChain ==
    LET chain == ChainFrom(last_block_hash, Cardinality(DOMAIN blocks) + 1)
    IN  /\ last_block_hash \in DOMAIN blocks
        /\ \A h \in DOMAIN blocks : blocks[h].previous_hash # Some(last_block_hash)
        /\ Len(chain) = Cardinality(DOMAIN blocks)
        /\ {chain[i] : i \in 1..Len(chain)} = DOMAIN blocks
        /\ blocks[chain[Len(chain)]].previous_hash = None
        /\ blocks[chain[Len(chain)]].transactions = <<>>

\* Two blocks have been mined on top of the genesis block.
C10_Witness ==
    /\ NumMined = 2
    /\ result = [op |-> "mine", status |-> "Ok"]
    /\ Len(ChainFrom(last_block_hash, 3)) = 3

\* C11: Blockchain::new yields a ledger with exactly one block, the genesis
\* block, which has no transactions, proof 100 and previous_hash None;
\* last_block_hash is that block's hash, the pending pool is empty and every
\* address has a balance of 0.
C11_InitialState ==
    result.op = "new" =>
        /\ DOMAIN blocks = {last_block_hash}
        /\ blocks[last_block_hash].transactions = <<>>
        /\ blocks[last_block_hash].proof = 100
        /\ blocks[last_block_hash].previous_hash = None
        /\ last_block_hash = calculate_hash(blocks[last_block_hash])
        /\ transactions = <<>>
        /\ \A a \in PeerHashes : get_peer_credits(blocks, a) = 0
        /\ UnspentEntries(blocks) = {}

\* The freshly constructed ledger, before any other call.
C11_Witness ==
    /\ result.op = "new"
    /\ NumMined = 0
    /\ miner_public_key_hash = MY_NODE_ID
    /\ get_block_height(get_last_block(blocks, last_block_hash)) = Ok(0)

\* C12: when create_simple_transaction succeeds, the transaction it appended
\* to the pool has inputs that reference pairwise distinct ToInput outputs
\* owned by the sender and unspent in the chain, has the outputs
\* ToInput{value, recipient} and ToInput{total - value - tax, sender} with
\* total the sum of the selected inputs, has balance tax, and would fall
\* short of value + tax without its last selected input.
C12_PaymentShape ==
    (result = [op |-> "create_simple_transaction", status |-> "Ok"]) =>
        /\ transactions # <<>>
        /\ LET transaction == transactions[Len(transactions)]
               inputs == transaction.data.inputs
               outputs == transaction.data.outputs
               sender == outputs[2].public_key_hash
               value == outputs[1].value
               tax == transaction.balance
               total == InputSum(blocks, inputs)
           IN  /\ Len(outputs) = 2
               /\ outputs[1].type = "ToInput"
               /\ value \in PayValues
               /\ tax \in PayTaxes
               /\ outputs[2] = ToInput(total - value - tax, sender)
               /\ \A k \in 1..Len(inputs) :
                      /\ inputs[k].type = "FromOutput"
                      /\ \E e \in UnspentEntries(blocks) :
                             /\ EntryTx(blocks, e).hash = inputs[k].hash
                             /\ e[3] = inputs[k].index
                             /\ EntryOutput(blocks, e).public_key_hash = sender
               /\ \A k, l \in 1..Len(inputs) :
                      k # l => ~ SameOutput(inputs[k], inputs[l])
               /\ inputs # <<>>
               /\ total - InputValue(blocks, inputs[Len(inputs)]).value < value + tax

\* C13: create_simple_transaction(sender, recipient, value, tax) returns an
\* error if and only if the sender's unspent ToInput outputs sum to less than
\* value + tax.
C13_ErrorIffInsufficient ==
    \A sender \in PeerHashes, recipient \in PeerHashes,
       value \in PayValues, tax \in PayTaxes :
        \A call \in SimpleTransactions(blocks, sender, recipient, value, tax) :
            (~ call.ok) <=> (get_peer_credits(blocks, sender) < value + tax)

\* C14: every FromOutput input of a transaction in the pending pool or in a
\* block carries a signature that verifies for the message
\* (transaction_hash, output_index, public_key) under a public key whose hash
\* is the public_key_hash of the output it references.
C14_SpendsAuthorized ==
    \A transaction \in LedgerTransactions :
        \A k \in 1..Len(transaction.data.inputs) :
            LET input == transaction.data.inputs[k]
                referenced == find_transaction(blocks, input.hash)[1].data.outputs[input.index + 1]
            IN  input.type = "FromOutput" =>
                    /\ verify(input.public_key,
                              SignedMessage(input.hash, input.index, input.public_key),
                              input.signature)
                    /\ PublicKeyHashOf(input.public_key) = referenced.public_key_hash

\* The transactions a block sealed from the pool: all but its reward.
SealedFromPool(block) ==
    IF block.transactions = <<>> THEN <<>>
    ELSE SubSeq(block.transactions, 1, Len(block.transactions) - 1)

\* The pool transactions sealed along the chain that ends in block h, oldest
\* block first.
RECURSIVE SealedUpTo(_, _, _)
SealedUpTo(bs, h, fuel) ==
    IF fuel = 0 \/ h \notin DOMAIN bs THEN <<>>
    ELSE IF bs[h].previous_hash = None THEN SealedFromPool(bs[h])
    ELSE SealedUpTo(bs, bs[h].previous_hash[1], fuel - 1) \o SealedFromPool(bs[h])

\* Every accepted transaction the ledger holds, in acceptance order.
HeldIn(bs, last_hash, pool) ==
    SealedUpTo(bs, last_hash, Cardinality(DOMAIN bs)) \o pool

\* C15: new_transaction and mine act on the ledger one whole call at a time:
\* every step either leaves the accepted transactions (sealed in the chain,
\* then pending) exactly as they were or appends one accepted transaction at
\* the end, and a step that seals a block moves the pool into it without
\* dropping, duplicating or reordering any transaction.
C15_AcceptedNeverDropped ==
    [][LET before == HeldIn(blocks, last_block_hash, transactions)
           after == HeldIn(blocks', last_block_hash', transactions')
       IN  /\ \/ after = before
              \/ /\ Len(after) = Len(before) + 1
                 /\ SubSeq(after, 1, Len(before)) = before
                 /\ transactions' = Append(transactions, after[Len(after)])
           /\ blocks' # blocks => after = before
           /\ transactions' # transactions =>
                  \/ blocks' # blocks /\ transactions' = <<>>
                  \/ blocks' = blocks /\ Len(transactions') = Len(transactions) + 1]_vars

\* A transaction accepted before the last mine is sealed and one accepted
\* after it is pending.
C15_Witness ==
    /\ result = [op |-> "new_transaction", status |-> "Ok"]
    /\ NumMined >= 1
    /\ SealedUpTo(blocks, last_block_hash, Cardinality(DOMAIN blocks)) # <<>>
    /\ transactions # <<>>

\* C16: for every non-genesis block b of the map with predecessor p, the
\* first byte of SHA3-256(p.proof ++ b.proof) is zero, that is
\* validate_proof(p.proof, b.proof) is true; in particular the block a
\* successful mine leaves as the last block is valid against its predecessor.
C16_ProofOfWorkValid ==
    /\ \A h \in DOMAIN blocks :
           blocks[h].previous_hash # None =>
               /\ blocks[h].previous_hash[1] \in DOMAIN blocks
               /\ LET p == blocks[blocks[h].previous_hash[1]]
                  IN  /\ Sha3FirstByte(p.proof, blocks[h].proof) = 0
                      /\ validate_proof(p.proof, blocks[h].proof)
    /\ (result = [op |-> "mine", status |-> "Ok"]) =>
           /\ blocks[last_block_hash].previous_hash # None
           /\ validate_proof(blocks[blocks[last_block_hash].previous_hash[1]].proof,
                             blocks[last_block_hash].proof)

\* Two blocks were mined, each with a proof found against its predecessor's.
C16_Witness ==
    /\ NumMined = 2
    /\ result = [op |-> "mine", status |-> "Ok"]
    /\ blocks[last_block_hash].proof \in 0..MaxProof
    /\ blocks[last_block_hash].proof #
           blocks[blocks[last_block_hash].previous_hash[1]].proof

\* The FromOutput input names a transaction hash the block map does not
\* hold, an index past the referenced transaction's outputs, or a ToPixel
\* output.
BadReference(bs, input) ==
    /\ input.type = "FromOutput"
    /\ LET holders == {e \in TxEntries(bs) : EntryTx(bs, e).hash = input.hash}
       IN  \/ holders = {}
           \/ \E e \in holders :
                  \/ input.index >= Len(EntryTx(bs, e).data.outputs)
                  \/ EntryTx(bs, e).data.outputs[input.index + 1].type = "ToPixel"

ReferenceErrors ==
    {"Fail to find input transaction.",
     "Fail to find output in input transaction.",
     "Mismatch output type in the input transaction."}

\* Input lists with a reference in the first or in the second place.
ReferenceLists ==
    InputLists \cup {<<FromReward(1, 100), a>> : a \in InputChoices}

C17_BadReferencesRejected ==
    /\ \A inputs \in ReferenceLists, outputs \in {<<>>, <<ToInput(99, OTHER_NODE_ID)>>} :
           (\E i \in 1..Len(inputs) : BadReference(blocks, inputs[i])) =>
               \E call \in {try_new(blocks, inputs, outputs, 0)} :
                   ~ call.ok /\ call.err \in ReferenceErrors
    /\ \A transaction \in LedgerTransactions :
           \A k \in 1..Len(transaction.data.inputs) :
               ~ BadReference(blocks, transaction.data.inputs[k])

\* C17: try_new returns an error whenever some FromOutput input names an
\* unknown transaction hash, an output index out of range or a ToPixel
\* output; a failed construction changes no ledger state; and no transaction
\* in the pool or chain spends a ToPixel output or a non-existent output.
C17_ConstructionRejectsBadReferences ==
    /\ [] C17_BadReferencesRejected
    /\ [][(result'.op = "try_new" /\ result'.status \in ReferenceErrors) =>
              UNCHANGED <<blocks, transactions, last_block_hash>>]_vars

\* A caller tried to spend a ToPixel output sealed in the chain.
C17_Witness ==
    /\ result = [op |-> "try_new",
                 status |-> "Mismatch output type in the input transaction."]
    /\ \E e \in OutputEntries(blocks) : EntryOutput(blocks, e).type = "ToPixel"

\* The position of block h in the chain, the genesis block being at 0.
ChainPosition(h) == Len(ChainFrom(h, Cardinality(DOMAIN blocks) + 1)) - 1

\* C18: a FromReward input occurs only as the single input of the last
\* transaction of a non-genesis block, with the height of that block's
\* position in the chain; and no transaction in the pending pool, admitted
\* through new_transaction, carries a FromReward input.
C18_RewardsOnlyFromMine ==
    /\ \A slot \in ChainInputSlots :
           ChainInput(slot).type = "FromReward" =>
               /\ blocks[slot[1]].previous_hash # None
               /\ slot[2] = Len(blocks[slot[1]].transactions)
               /\ Len(EntryTx(blocks, slot).data.inputs) = 1
               /\ ChainInput(slot).height = ChainPosition(slot[1])
    /\ \A slot \in PoolInputSlots : PoolInput(slot).type # "FromReward"

\* C19: for every valid private key k, Address::from_private_key(k).validate()
\* is true, and the derived string decodes to exactly 37 bytes whose first
\* byte is the current version and whose last 4 bytes are the first 4 bytes
\* of SHA3-256(SHA3-256(version ++ public_key_hash)).
C19_AddressRoundTrip ==
    /\ \A private_key \in PrivateKeyScalars :
           \E base58 \in {from_private_key(private_key)} :
               \E decoded \in {Base58Decode(base58)} :
                   /\ validate(base58)
                   /\ decoded.ok
                   /\ Len(decoded.value) = 37
                   /\ decoded.value[1] = CURRENT_VERSION
                   /\ SubSeq(decoded.value, 2, 33) =
                          Sha3_256Bytes(PublicKeyBytes(private_key))
                   /\ SubSeq(decoded.value, 34, 37) =
                          SubSeq(Sha3_256Bytes(Sha3_256Bytes(
                                     <<decoded.value[1]>> \o SubSeq(decoded.value, 2, 33))),
                                 1, 4)
    /\ (/\ result.op = "validate"
        /\ \E private_key \in PrivateKeyScalars :
               result.address = from_private_key(private_key))
           => result.valid

\* validate has returned true for an address derived from a private key.
C19_Witness ==
    /\ result.op = "validate"
    /\ result.valid
    /\ \E private_key \in PrivateKeyScalars :
           result.address = from_private_key(private_key)
    /\ Len(result.address) > 37

\* C20: every non-genesis block has at least one transaction and the first
\* input of its last transaction is a FromReward input, so get_block_height
\* fails for no block; the genesis block has height 0 and the block the n-th
\* mine produced has height n, one more than the block its previous_hash
\* names.
C20_HeightsConsecutive ==
    \A h \in DOMAIN blocks :
        /\ get_block_height(blocks[h]).ok
        /\ get_block_height(blocks[h]).value = ChainPosition(h)
        /\ IF blocks[h].previous_hash = None
           THEN get_block_height(blocks[h]) = Ok(0)
           ELSE LET sealed == blocks[h].transactions
                    previous == blocks[blocks[h].previous_hash[1]]
                IN  /\ sealed # <<>>
                    /\ sealed[Len(sealed)].data.inputs # <<>>
                    /\ sealed[Len(sealed)].data.inputs[1].type = "FromReward"
                    /\ get_block_height(blocks[h]).value =
                           get_block_height(previous).value + 1

\* The second mine sealed a pool and produced the block of height 2.
C20_Witness ==
    /\ NumMined = 2
    /\ result = [op |-> "mine", status |-> "Ok"]
    /\ get_block_height(get_last_block(blocks, last_block_hash)) = Ok(2)
    /\ Len(get_last_block(blocks, last_block_hash).transactions) >= 2

\* The hashes a caller can ask find_transaction for: those of the sealed and
\* pending transactions of either state of a step, and an unknown one.
AskedHashes(bs, pool) ==
    {EntryTx(bs, e).hash : e \in TxEntries(bs)}
    \cup {pool[i].hash : i \in 1..Len(pool)}
    \cup {Sha3_256(<<"unknown">>)}

\* C21: a successful new_transaction appends exactly the given transaction
\* at the end of the pending pool and leaves the block map and
\* last_block_hash unchanged, so every balance, the unspent outputs and every
\* find_transaction result are the same before and after it.
C21_AcceptChangesOnlyPool ==
    [][(result'.op = "new_transaction" /\ result'.status = "Ok"
            /\ transactions' # transactions) =>
          /\ Len(transactions') = Len(transactions) + 1
          /\ SubSeq(transactions', 1, Len(transactions)) = transactions
          /\ blocks' = blocks
          /\ last_block_hash' = last_block_hash
          /\ \A a \in PeerHashes :
                 get_peer_credits(blocks', a) = get_peer_credits(blocks, a)
          /\ UnspentEntries(blocks') = UnspentEntries(blocks)
          /\ \A h \in AskedHashes(blocks', transactions') :
                 find_transaction(blocks', h) = find_transaction(blocks, h)]_vars

\* A transaction was accepted into a pool that already held one, on top of
\* a mined chain, and find_transaction does not see it yet.
C21_Witness ==
    /\ result = [op |-> "new_transaction", status |-> "Ok"]
    /\ NumMined >= 1
    /\ Len(transactions) = 2
    /\ transactions[1] # transactions[2]
    /\ find_transaction(blocks, transactions[2].hash) = None

\* C22: a block of the map stays in it under the same hash with the same
\* transactions, proof and previous_hash; every successful mine grows the map
\* by exactly one block; and a step that is not a successful mine neither
\* adds, removes or alters a block nor moves last_block_hash.
C22_HistoryAppendOnly ==
    [][/\ \A h \in DOMAIN blocks :
              h \in DOMAIN blocks' /\ blocks'[h] = blocks[h]
       /\ \A outcome \in mine(miner_public_key_hash, blocks, transactions,
                              last_block_hash, now) :
              outcome.status = "Ok" =>
                  Cardinality(DOMAIN outcome.blocks) = Cardinality(DOMAIN blocks) + 1
       /\ (blocks' # blocks \/ last_block_hash' # last_block_hash) =>
              /\ result' = [op |-> "mine", status |-> "Ok"]
              /\ Cardinality(DOMAIN blocks') = Cardinality(DOMAIN blocks) + 1
              /\ (DOMAIN blocks') \ (DOMAIN blocks) = {last_block_hash'}
       /\ (result'.op # "mine" \/ result'.status # "Ok") =>
              /\ blocks' = blocks
              /\ last_block_hash' = last_block_hash]_vars

\* A block that sealed accepted transactions is still in the map after a
\* later mine.
C22_Witness ==
    /\ NumMined = 2
    /\ result = [op |-> "mine", status |-> "Ok"]
    /\ \E h \in DOMAIN blocks :
           /\ h # last_block_hash
           /\ blocks[h].previous_hash # None
           /\ Len(blocks[h].transactions) >= 2
           /\ calculate_hash(blocks[h]) = h

\* C23: get_peer_credits(a) >= 0 for every address a, and every output of
\* every transaction in the pool or chain has a value >= 0.
C23_NoNegativeCredits ==
    /\ \A a \in PeerHashes : get_peer_credits(blocks, a) >= 0
    /\ \A transaction \in LedgerTransactions :
           \A j \in 1..Len(transaction.data.outputs) :
               transaction.data.outputs[j].value >= 0

\* C24: no two transactions at different positions of the committed blocks
\* and the pending pool have the same hash.
C24_TransactionHashesUnique ==
    /\ \A a, b \in TxEntries(blocks) :
           a # b => EntryTx(blocks, a).hash # EntryTx(blocks, b).hash
    /\ \A i, j \in 1..Len(transactions) :
           i # j => transactions[i].hash # transactions[j].hash
    /\ \A a \in TxEntries(blocks), i \in 1..Len(transactions) :
           EntryTx(blocks, a).hash # transactions[i].hash
====
